---- MODULE Spec2Model ----
(***************************************************************************)
(* Request admission gate of the messaging application:                    *)
(*   RestrictAccessByTimeMiddleware  (time-window gate)                    *)
(*   OffensiveLanguageMiddleware     (per-client sliding-window rate gate) *)
(* modelled from Django-Middleware-0x03/chats/middleware.py.               *)
(*                                                                         *)
(* Time is in whole seconds.  A time of day is <<hour, minute>> and is     *)
(* ordered as datetime.time orders it (field by field).                    *)
(***************************************************************************)
EXTENDS Integers, Sequences, FiniteSets, TLC

(* ------------------------------ bounds --------------------------------- *)

\* number of instants of the clock grid at the start: 0, then 1, ...
EarlyTicks == 1

\* number of instants of the clock grid around the end of the window that
\* opened at 0: window - 1, window, ...
LateTicks == 2

\* number of requests evaluated concurrently, each by its own worker thread
NThreads == 3

\* number of one-second instants at the start of a scripted burst
BurstEarly == 5

(* ------------------------- program constants --------------------------- *)

\* self.max_requests = 5
DefaultMaxRequests == 5

\* self.time_window = 60
DefaultTimeWindow == 60

\* start_time = dt_time(21, 0)
start_time == <<21, 0>>

\* end_time = dt_time(6, 0)
end_time == <<6, 0>>

(* ------------------------------ inputs --------------------------------- *)

\* value of request.META.get(...) for an absent entry (Python None)
None == "None"

\* an absent forwarded-for header; a present one is the sequence of its
\* comma-separated entries (str.split(',') never returns an empty list)
NoHeader == <<>>

\* the instants time.time() may return, in seconds
Instants ==
  (0..(EarlyTicks - 1)) \cup
  { DefaultTimeWindow - 1 + j : j \in 0..(LateTicks - 1) }

Methods == {"POST", "GET"}

Metas ==
  { [HTTP_X_FORWARDED_FOR |-> NoHeader, REMOTE_ADDR |-> "A"],
    [HTTP_X_FORWARDED_FOR |-> NoHeader, REMOTE_ADDR |-> "B"] }

Requests == [method : Methods, META : Metas]

\* what the rest of the pipeline (get_response) may answer
DownstreamResponses ==
  { [status |-> 200, body |-> <<"OK">>],
    [status |-> 404, body |-> <<"Not Found">>] }

Hours == 0..23

Minutes == {0, 1, 30, 59}

TimesOfDay == { <<h, m>> : h \in Hours, m \in Minutes }

NoTime == <<0, 0>>

(* ------------------------------ helpers -------------------------------- *)

\* datetime.time.__lt__ : field-by-field comparison of (hour, minute)
TimeLt(a, b) == a[1] < b[1] \/ (a[1] = b[1] /\ a[2] < b[2])

\* datetime.time.__ge__
TimeGe(a, b) == ~TimeLt(a, b)

\* HttpResponseForbidden(text)
HttpResponseForbidden(text) == [status |-> 403, body |-> text]

\* the header taken whenever it was sent, the empty one too
TruthyNotNone(x) == x # NoHeader

\* truth value of a header value: None and '' are false
Truthy(x) == x # NoHeader /\ x # <<"">>

\* the header ignored: the key is always REMOTE_ADDR
GetClientIpDirect(request) == request.META.REMOTE_ADDR

\* OffensiveLanguageMiddleware._get_client_ip
GetClientIp(request) ==
  LET x_forwarded_for == request.META.HTTP_X_FORWARDED_FOR
  IN  IF Truthy(x_forwarded_for)
      THEN x_forwarded_for[1]
      ELSE request.META.REMOTE_ADDR

\* self.ip_requests[key] of a defaultdict(list): a missing key reads as []
Lookup(ipr, key) == IF key \in DOMAIN ipr THEN ipr[key] ELSE <<>>

\* self.ip_requests[key] = value
Store(ipr, key, value) ==
  [k \in (DOMAIN ipr) \cup {key} |-> IF k = key THEN value ELSE ipr[k]]

\* the condition with the boundary instant kept (<= for <)
FreshInclusive(req_time, current_time, window) == current_time - req_time <= window

\* the comprehension's condition: current_time - req_time < self.time_window
Fresh(req_time, current_time, window) == current_time - req_time < window

RECURSIVE Clean(_, _, _)
\* [req_time for req_time in reqs if current_time - req_time < window]
Clean(reqs, current_time, window) ==
  IF reqs = <<>> THEN <<>>
  ELSE LET rest == Clean(Tail(reqs), current_time, window)
       IN  IF Fresh(Head(reqs), current_time, window)
           THEN <<Head(reqs)>> \o rest
           ELSE rest

\* the limit test off by one (> for >=)
LimitExceededStrict(reqs, max) == Len(reqs) > max

\* len(self.ip_requests[ip_address]) >= self.max_requests
LimitExceeded(reqs, max) == Len(reqs) >= max

\* the body with the length of the window where the limit belongs
RateLimitBodyWindow(max) ==
  <<"Rate limit exceeded: Maximum ", ToString(DefaultTimeWindow), " messages per minute allowed">>

\* the body of the rate gate's 403
RateLimitBody(max) ==
  <<"Rate limit exceeded: Maximum ", ToString(max), " messages per minute allowed">>

\* the body of the time gate's 403
AccessDeniedBody == <<"Access denied: Chat is only available from 9PM to 6AM">>

\* the condition with 21:00 itself shut out (> for >=)
InAllowedHoursStrictStart(current_time) ==
  TimeLt(current_time, end_time) \/ TimeLt(start_time, current_time)

\* the condition of RestrictAccessByTimeMiddleware.__call__
InAllowedHours(current_time) ==
  TimeLt(current_time, end_time) \/ TimeGe(current_time, start_time)

(* ------------------------------- state --------------------------------- *)

VARIABLES
  clock,        \* the value time.time() currently returns, in seconds
  ip_requests,  \* self.ip_requests : client key -> list of request times
  max_requests, \* self.max_requests
  time_window,  \* self.time_window
  admitted,     \* history: client key -> times of the POSTs let through that a
                \* window ending at the latest of them can contain
  last,         \* the most recent completed evaluation of a gate
  pc,           \* per request in flight: position inside the rate gate's __call__
  frame,        \* per request in flight: the locals of the call
  plan,         \* the request times of a scripted run of one client
  log,          \* the decisions the scripted run has got so far
  users,        \* table messaging_user: the ids of the stored users
  messages,     \* table messaging_message: id -> row
  notifications,\* table messaging_notification: the rows, oldest first
  history,      \* table messaging_messagehistory: the rows, oldest first
  issued,       \* how many message ids uuid.uuid4 has produced
  outcome,      \* how the last delete() ended for its caller
  fetched,      \* what the last query through Message.unread returned
  retry,        \* a call of a function wrapped by retry_on_failure
  waits,        \* a call of wait_n or task_wait_n
  pager         \* a generator made by lazy_paginate and its consumer

\* the tables of the messaging application
tables == <<users, messages, notifications, history, issued, outcome, fetched>>

\* the state of the two gates
gates == <<clock, ip_requests, max_requests, time_window, admitted, last,
           pc, frame, plan, log>>

vars == <<clock, ip_requests, max_requests, time_window, admitted, last,
          pc, frame, plan, log, users, messages, notifications, history, issued,
          outcome, fetched, retry, waits, pager>>

\* the standalone scripts
scripts == <<retry, waits, pager>>

\* no wrapped function called
NoRetry ==
  [pc |-> "idle", retries |-> 0, delay |-> 0, attempt |-> 0,
   last_exception |-> None, events |-> <<>>, result |-> <<>>]

\* no coroutine started
NoWaits == [pc |-> "idle", n |-> 0, max_delay |-> 0, now |-> 0,
            tasks |-> <<>>, results |-> <<>>]

\* no generator made
NoPager == [pc |-> "idle", page_size |-> 0, offset |-> 0, table |-> <<>>,
            asked |-> 0, fetched |-> <<>>, yielded |-> <<>>]

\* the scripts before any of them runs
ScriptsAtStart ==
  /\ retry = NoRetry
  /\ waits = NoWaits
  /\ pager = NoPager

\* the users the application starts with
UserIds == {"user1", "user2"}

\* no query made yet
NoFetch == [user |-> None, all |-> {}, for_user |-> {}]

\* the database before any message is sent
TablesAtStart ==
  /\ users = UserIds
  /\ messages = <<>>
  /\ notifications = <<>>
  /\ history = <<>>
  /\ issued = 0
  /\ outcome = "none"
  /\ fetched = NoFetch

Threads == 1..NThreads

\* the ClientKeys the inputs can resolve to
Keys == { GetClientIp(r) : r \in Requests }

NoRequest == [method |-> "NONE", META |-> [HTTP_X_FORWARDED_FOR |-> NoHeader, REMOTE_ADDR |-> None]]

NoResponse == [status |-> 0, body |-> <<>>]

\* the record kept of one evaluation
\* (before: the list the rate gate found for the client of a POST)
Evaluation(gate, request, now, tod, before, response, forwarded) ==
  [gate |-> gate, request |-> request, now |-> now, tod |-> tod,
   before |-> before, response |-> response, forwarded |-> forwarded]

NoEvaluation == Evaluation("none", NoRequest, 0, NoTime, <<>>, NoResponse, <<>>)

IdleFrame ==
  [request |-> NoRequest, ip_address |-> None, current_time |-> 0,
   cleaned |-> <<>>, downstream |-> NoResponse, response |-> NoResponse,
   forwarded |-> <<>>]

\* OffensiveLanguageMiddleware.__init__ (and the clock the process starts at)
Init ==
  /\ clock = 0
  /\ ip_requests = <<>>
  /\ max_requests = DefaultMaxRequests
  /\ time_window = DefaultTimeWindow
  /\ admitted = [k \in Keys |-> <<>>]
  /\ last = NoEvaluation
  /\ pc = [t \in Threads |-> "idle"]
  /\ frame = [t \in Threads |-> IdleFrame]
  /\ plan = <<>>
  /\ log = <<>>
  /\ TablesAtStart
  /\ ScriptsAtStart

(* --------------------------- the rate gate ----------------------------- *)

\* every client's list cleaned at each POST, and the keys left with no entry
\* evicted
CleanOldSweep(ipr, ip_address, current_time, window) ==
  [k \in { j \in (DOMAIN ipr) \cup {ip_address} :
             j = ip_address \/ Clean(ipr[j], current_time, window) # <<>> }
     |-> Clean(Lookup(ipr, k), current_time, window)]

\* the cleaned list used for nothing: the client's list is left as found
CleanOldDiscarded(ipr, ip_address, current_time, window) ==
  Store(ipr, ip_address, Lookup(ipr, ip_address))

\* lines 146-149: replace the client's list by its entries inside the window
CleanOld(ipr, ip_address, current_time, window) ==
  Store(ipr, ip_address, Clean(Lookup(ipr, ip_address), current_time, window))

\* one list shared by all the keys: the time lands in every client's list
TrackShared(ipr, ip_address, current_time) ==
  [k \in (DOMAIN ipr) \cup {ip_address} |-> Append(Lookup(ipr, k), current_time)]

\* line 158: self.ip_requests[ip_address].append(current_time)
Track(ipr, ip_address, current_time) ==
  Store(ipr, ip_address, Append(Lookup(ipr, ip_address), current_time))

\* lines 152-155: the rejection, which neither appends nor forwards
Reject(ipr, max) ==
  [ip_requests |-> ipr,
   response    |-> HttpResponseForbidden(RateLimitBody(max)),
   forwarded   |-> <<>>]

\* lines 160-163: response = self.get_response(request); return response
Forward(ipr, request, downstream) ==
  [ip_requests |-> ipr, response |-> downstream, forwarded |-> <<request>>]

\* the time appended before the limit is tested
TrackPostAppendFirst(ipr, request, current_time, max, window, downstream) ==
  LET ip_address == GetClientIp(request)
      cleaned    == CleanOld(ipr, ip_address, current_time, window)
      tracked    == Track(cleaned, ip_address, current_time)
  IN  IF LimitExceeded(cleaned[ip_address], max)
      THEN Reject(tracked, max)
      ELSE Forward(tracked, request, downstream)

\* the request let through without its time being appended
TrackPostNoAppend(ipr, request, current_time, max, window, downstream) ==
  LET ip_address == GetClientIp(request)
      cleaned    == CleanOld(ipr, ip_address, current_time, window)
  IN  IF LimitExceeded(cleaned[ip_address], max)
      THEN Reject(cleaned, max)
      ELSE Forward(cleaned, request, downstream)

\* lines 141-158, the branch taken by a POST
TrackPost(ipr, request, current_time, max, window, downstream) ==
  LET ip_address == GetClientIp(request)
      cleaned    == CleanOld(ipr, ip_address, current_time, window)
  IN  IF LimitExceeded(cleaned[ip_address], max)
      THEN Reject(cleaned, max)
      ELSE Forward(Track(cleaned, ip_address, current_time), request, downstream)

\* the gate without its test of the method: every request is tracked
OffensiveLanguageCallAnyMethod(ipr, request, current_time, max, window, downstream) ==
  TrackPost(ipr, request, current_time, max, window, downstream)

\* OffensiveLanguageMiddleware.__call__, run without interruption;
\* downstream is what get_response answers if it is called
OffensiveLanguageCall(ipr, request, current_time, max, window, downstream) ==
  IF request.method = "POST"
  THEN TrackPost(ipr, request, current_time, max, window, downstream)
  ELSE Forward(ipr, request, downstream)

\* the history after a POST of client key was let through at time t: the
\* times that a window ending at t or later can contain
Record(adm, key, t, window) ==
  [adm EXCEPT ![key] = Append(SelectSeq(@, LAMBDA u : u > t - window), t)]

\* the history after an evaluation
Remember(adm, request, t, window, forwarded) ==
  IF request.method = "POST" /\ forwarded # <<>>
  THEN Record(adm, GetClientIp(request), t, window)
  ELSE adm

\* the list the rate gate finds for the client of a request it tracks
Found(ipr, request) ==
  IF request.method = "POST" THEN Lookup(ipr, GetClientIp(request)) ELSE <<>>

\* the effect on the gate's state of one request going through the rate gate,
\* start to end, with time.time() = t
Evaluate(request, downstream, t) ==
  LET r == OffensiveLanguageCall(ip_requests, request, t,
                                 max_requests, time_window, downstream)
  IN  /\ ip_requests' = r.ip_requests
      /\ admitted' = Remember(admitted, request, t, time_window, r.forwarded)
      /\ last' = Evaluation("rate", request, t, NoTime,
                            Found(ip_requests, request), r.response, r.forwarded)

\* one request goes through the rate gate at the present instant
RateGate(request, downstream) ==
  /\ Evaluate(request, downstream, clock)
  /\ UNCHANGED <<tables, scripts, clock, max_requests, time_window, pc, frame, plan, log>>

(* --------------------------- the time gate ----------------------------- *)

\* get_response called before the time is looked at
RestrictAccessByTimeCallForwardFirst(request, current_time, downstream) ==
  IF InAllowedHours(current_time)
  THEN [response |-> downstream, forwarded |-> <<request>>]
  ELSE [response |-> HttpResponseForbidden(AccessDeniedBody), forwarded |-> <<request>>]

\* a gate that remembers: once it has turned a request away it turns away
\* the next one too
RestrictAccessByTimeCallSticky(request, current_time, downstream) ==
  IF InAllowedHours(current_time) /\ ~(last.gate = "time" /\ last.forwarded = <<>>)
  THEN [response |-> downstream, forwarded |-> <<request>>]
  ELSE [response |-> HttpResponseForbidden(AccessDeniedBody), forwarded |-> <<>>]

\* RestrictAccessByTimeMiddleware.__call__ evaluated at time of day current_time
RestrictAccessByTimeCall(request, current_time, downstream) ==
  IF InAllowedHours(current_time)
  THEN [response |-> downstream, forwarded |-> <<request>>]
  ELSE [response |-> HttpResponseForbidden(AccessDeniedBody), forwarded |-> <<>>]

\* the effect of one request going through the time gate, start to end, with
\* datetime.now().time() = tod
TimeEvaluate(request, tod, downstream) ==
  LET r == RestrictAccessByTimeCall(request, tod, downstream)
  IN  /\ last' = Evaluation("time", request, clock, tod, <<>>, r.response, r.forwarded)
      /\ UNCHANGED <<tables, scripts, clock, ip_requests, max_requests, time_window, admitted,
                     pc, frame>>

\* one request goes through the time gate; tod is datetime.now().time()
TimeGate(request, tod, downstream) ==
  /\ TimeEvaluate(request, tod, downstream)
  /\ UNCHANGED <<plan, log>>

(* --------------------------- the environment --------------------------- *)

\* the system clock moves on (never backwards)
AdvanceClock ==
  /\ \E t \in Instants : t > clock /\ clock' = t
  /\ UNCHANGED <<tables, scripts, ip_requests, max_requests, time_window, admitted, last,
                 pc, frame, plan, log>>

(* ------------------- requests served one after another ----------------- *)

\* the answer of a downstream handler that finds what it is asked for
Handled == [status |-> 200, body |-> <<"OK">>]

Next ==
  \/ AdvanceClock
  \/ \E request \in Requests : RateGate(request, Handled)

Spec == Init /\ [][Next]_vars

\* the times of day at which the time gate's answer changes, and their neighbours
BoundaryTimes == { <<5, 59>>, <<6, 0>>, <<20, 59>>, <<21, 0>> }

(* ---------------------- both gates, within one second ------------------ *)

NextGates ==
  \/ \E request \in Requests, downstream \in DownstreamResponses :
       RateGate(request, downstream)
  \/ \E request \in Requests, tod \in BoundaryTimes, downstream \in DownstreamResponses :
       TimeGate(request, tod, downstream)

SpecGates == Init /\ [][NextGates]_vars

(* ------------------------ the time gate on its own --------------------- *)

NextTime ==
  \E request \in Requests, tod \in TimesOfDay, downstream \in DownstreamResponses :
    TimeGate(request, tod, downstream)

SpecTime == Init /\ [][NextTime]_vars

(* ------------- the time gate asked again at the same time -------------- *)

\* how many times the time gate is asked at the reference time of day
MaxRepeats == 3

\* plan holds the reference time of day, log the decisions taken at it
InitRepeat ==
  /\ clock = 0
  /\ ip_requests = <<>>
  /\ max_requests = DefaultMaxRequests
  /\ time_window = DefaultTimeWindow
  /\ admitted = [k \in Keys |-> <<>>]
  /\ last = NoEvaluation
  /\ pc = [t \in Threads |-> "idle"]
  /\ frame = [t \in Threads |-> IdleFrame]
  /\ \E tod \in BoundaryTimes : plan = <<tod>>
  /\ log = <<>>
  /\ TablesAtStart
  /\ ScriptsAtStart

\* a request goes through the time gate at the reference time of day
RepeatTimeGate ==
  /\ Len(log) < MaxRepeats
  /\ \E request \in Requests : TimeEvaluate(request, plan[1], Handled)
  /\ log' = Append(log, IF last'.forwarded # <<>> THEN "admit" ELSE "reject")
  /\ UNCHANGED plan

\* in between, requests go through either gate at any time of day
NextRepeat ==
  \/ RepeatTimeGate
  \/ \E request \in Requests, tod \in BoundaryTimes : TimeGate(request, tod, Handled)
  \/ \E request \in Requests : RateGate(request, Handled)

SpecRepeat == InitRepeat /\ [][NextRepeat]_vars

(* ---------------- the two gates chained, time gate first ---------------- *)

\* the time gate's get_response is the rate gate, whose get_response is the
\* handler: the rate gate runs, and its state changes, only inside the time
\* gate's call of get_response
ChainCall(ipr, request, tod, current_time, max, window, downstream) ==
  LET inner == OffensiveLanguageCall(ipr, request, current_time, max, window, downstream)
      outer == RestrictAccessByTimeCall(request, tod, inner.response)
  IN  IF outer.forwarded = <<>>
      THEN [response |-> outer.response, ip_requests |-> ipr, forwarded |-> <<>>]
      ELSE [response |-> outer.response, ip_requests |-> inner.ip_requests,
            forwarded |-> inner.forwarded]

\* one request goes through the chain at time of day tod
ChainGate(request, tod, downstream) ==
  LET r == ChainCall(ip_requests, request, tod, clock,
                     max_requests, time_window, downstream)
  IN  /\ ip_requests' = r.ip_requests
      /\ admitted' = Remember(admitted, request, clock, time_window, r.forwarded)
      /\ last' = Evaluation("chain", request, clock, tod,
                            Found(ip_requests, request), r.response, r.forwarded)
      /\ UNCHANGED <<tables, scripts, clock, max_requests, time_window, pc, frame, plan, log>>

NextChain ==
  \E request \in Requests, tod \in BoundaryTimes, downstream \in DownstreamResponses :
    ChainGate(request, tod, downstream)

SpecChain == Init /\ [][NextChain]_vars

(* ------------- a burst of one client, then a late request -------------- *)

\* the client of the burst sends this request
BurstRequest ==
  [method |-> "POST", META |-> [HTTP_X_FORWARDED_FOR |-> NoHeader, REMOTE_ADDR |-> "A"]]

\* the times a burst may use: the first seconds, the middle and the last
\* second of the window that opens at 0
BurstInstants ==
  (0..(BurstEarly - 1)) \cup { DefaultTimeWindow \div 2, DefaultTimeWindow - 1 }

\* the strictly increasing sequence of the members of a set of times
RECURSIVE Ascending(_)
Ascending(S) ==
  IF S = {} THEN <<>>
  ELSE LET m == CHOOSE x \in S : \A y \in S : x <= y
       IN  <<m>> \o Ascending(S \ {m})

\* how long after the end of the first request's window the late request
\* comes: at its very end, one second later, a whole window later
LateBy == {0, 1, DefaultTimeWindow}

\* t1 < ... < t6 inside a span shorter than the window, and t7 >= t1 + window
BurstPlans ==
  { Ascending(S) \o <<Ascending(S)[1] + DefaultTimeWindow + d>> :
      S \in { T \in SUBSET BurstInstants : Cardinality(T) = DefaultMaxRequests + 1 },
      d \in LateBy }

InitBurst ==
  /\ clock = 0
  /\ ip_requests = <<>>
  /\ max_requests = DefaultMaxRequests
  /\ time_window = DefaultTimeWindow
  /\ admitted = [k \in Keys |-> <<>>]
  /\ last = NoEvaluation
  /\ pc = [t \in Threads |-> "idle"]
  /\ frame = [t \in Threads |-> IdleFrame]
  /\ plan \in BurstPlans
  /\ log = <<>>
  /\ TablesAtStart
  /\ ScriptsAtStart

\* the next request of the burst arrives at its time and is evaluated
ScriptedPost ==
  /\ Len(log) < Len(plan)
  /\ LET t == plan[Len(log) + 1]
     IN  /\ clock' = t
         /\ Evaluate(BurstRequest, Handled, t)
         /\ log' = Append(log, IF last'.forwarded # <<>> THEN "admit" ELSE "reject")
  /\ UNCHANGED <<tables, scripts, max_requests, time_window, pc, frame, plan>>

\* meanwhile, other requests: of other clients, or not POSTs
OtherTraffic ==
  /\ Len(log) < Len(plan)
  /\ \E request \in Requests :
       /\ request.method # "POST" \/ GetClientIp(request) # GetClientIp(BurstRequest)
       /\ RateGate(request, Handled)

NextBurst == ScriptedPost \/ OtherTraffic

SpecBurst == InitBurst /\ [][NextBurst]_vars

(* ------------- the scenario with a quota of 2 per 10 seconds ----------- *)

\* the values the scenario gives self.max_requests and self.time_window
ScenarioConfig == [max_requests |-> 2, time_window |-> 10]

\* the times of the client's POSTs
ScenarioPlan == <<0, 3, 6, 9, 12>>

InitScenario ==
  /\ clock = 0
  /\ ip_requests = <<>>
  /\ max_requests = ScenarioConfig.max_requests
  /\ time_window = ScenarioConfig.time_window
  /\ admitted = [k \in Keys |-> <<>>]
  /\ last = NoEvaluation
  /\ pc = [t \in Threads |-> "idle"]
  /\ frame = [t \in Threads |-> IdleFrame]
  /\ plan = ScenarioPlan
  /\ log = <<>>
  /\ TablesAtStart
  /\ ScriptsAtStart

SpecScenario == InitScenario /\ [][NextBurst]_vars

(* ------------- requests that name their client in many ways ------------ *)

\* request.META of requests with and without the X-Forwarded-For header (the
\* header as the list of its comma-separated entries, <<"">> the empty
\* string) and with and without REMOTE_ADDR
KeyedMetas ==
  { [HTTP_X_FORWARDED_FOR |-> NoHeader,        REMOTE_ADDR |-> "A"],
    [HTTP_X_FORWARDED_FOR |-> <<"A", "C">>,    REMOTE_ADDR |-> "B"],
    [HTTP_X_FORWARDED_FOR |-> <<"A">>,         REMOTE_ADDR |-> None],
    [HTTP_X_FORWARDED_FOR |-> <<"">>,          REMOTE_ADDR |-> "B"],
    [HTTP_X_FORWARDED_FOR |-> NoHeader,        REMOTE_ADDR |-> None],
    [HTTP_X_FORWARDED_FOR |-> <<"">>,          REMOTE_ADDR |-> None],
    [HTTP_X_FORWARDED_FOR |-> <<"", "B">>,     REMOTE_ADDR |-> "A"] }

KeyedRequests == [method : Methods, META : KeyedMetas]

\* every value a client key can take for these requests
KeyedKeys ==
  UNION { {m.REMOTE_ADDR} \cup
          (IF m.HTTP_X_FORWARDED_FOR = NoHeader THEN {}
           ELSE {m.HTTP_X_FORWARDED_FOR[1]}) : m \in KeyedMetas }

InitKeys ==
  /\ clock = 0
  /\ ip_requests = <<>>
  /\ max_requests = DefaultMaxRequests
  /\ time_window = DefaultTimeWindow
  /\ admitted = [k \in KeyedKeys |-> <<>>]
  /\ last = NoEvaluation
  /\ pc = [t \in Threads |-> "idle"]
  /\ frame = [t \in Threads |-> IdleFrame]
  /\ plan = <<>>
  /\ log = <<>>
  /\ TablesAtStart
  /\ ScriptsAtStart

NextKeys == \E request \in KeyedRequests : RateGate(request, Handled)

SpecKeys == InitKeys /\ [][NextKeys]_vars

(* ------------------ requests evaluated concurrently -------------------- *)
(* The middleware object is shared by the worker threads and __call__      *)
(* takes no lock, so the statements of several calls interleave.  Each     *)
(* step below is one statement of lines 141-161; the calls all read the    *)
(* same second off the clock.                                              *)

\* a list of n entries of time 0
RECURSIVE Zeros(_)
Zeros(n) == IF n = 0 THEN <<>> ELSE <<0>> \o Zeros(n - 1)

\* the states requests served one after another at time 0 leave behind:
\* nothing, or n POSTs of client A let through
Served(n) == IF n = 0 THEN <<>> ELSE Store(<<>>, GetClientIp(BurstRequest), Zeros(n))

InitConc ==
  /\ clock = 0
  /\ \E n \in 0..DefaultMaxRequests :
       /\ ip_requests = Served(n)
       /\ admitted = [k \in Keys |-> Lookup(Served(n), k)]
  /\ max_requests = DefaultMaxRequests
  /\ time_window = DefaultTimeWindow
  /\ last = NoEvaluation
  /\ pc = [t \in Threads |-> "idle"]
  /\ frame = [t \in Threads |-> IdleFrame]
  /\ plan = <<>>
  /\ log = <<>>
  /\ TablesAtStart
  /\ ScriptsAtStart

\* lines 141-143: the method is tested, the client and the time are read
Begin(t, request, downstream) ==
  /\ pc[t] = "idle"
  /\ frame' = [frame EXCEPT ![t] =
       [IdleFrame EXCEPT !.request = request,
                         !.downstream = downstream,
                         !.ip_address = IF request.method = "POST"
                                        THEN GetClientIp(request) ELSE None,
                         !.current_time = IF request.method = "POST"
                                          THEN clock ELSE 0]]
  /\ pc' = [pc EXCEPT ![t] = IF request.method = "POST" THEN "clean" ELSE "forward"]
  /\ UNCHANGED <<tables, scripts, clock, ip_requests, max_requests, time_window, admitted, last, plan, log>>

\* lines 146-149, right-hand side: the comprehension reads the client's list
\* (a defaultdict creates the key it is asked for) and builds the cleaned one
CleanRead(t) ==
  /\ pc[t] = "clean"
  /\ frame' = [frame EXCEPT ![t].cleaned =
       Clean(Lookup(ip_requests, frame[t].ip_address),
             frame[t].current_time, time_window)]
  /\ ip_requests' = Store(ip_requests, frame[t].ip_address,
                          Lookup(ip_requests, frame[t].ip_address))
  /\ pc' = [pc EXCEPT ![t] = "store"]
  /\ UNCHANGED <<tables, scripts, clock, max_requests, time_window, admitted, last, plan, log>>

\* line 146, the assignment: the cleaned list replaces the client's list
CleanStore(t) ==
  /\ pc[t] = "store"
  /\ ip_requests' = Store(ip_requests, frame[t].ip_address, frame[t].cleaned)
  /\ pc' = [pc EXCEPT ![t] = "check"]
  /\ UNCHANGED <<tables, scripts, clock, max_requests, time_window, admitted, last, frame, plan, log>>

\* lines 152-155: the length of the client's list is tested
CheckLimit(t) ==
  /\ pc[t] = "check"
  /\ IF LimitExceeded(Lookup(ip_requests, frame[t].ip_address), max_requests)
     THEN /\ frame' = [frame EXCEPT ![t].response =
                         Reject(ip_requests, max_requests).response]
          /\ pc' = [pc EXCEPT ![t] = "done"]
     ELSE /\ pc' = [pc EXCEPT ![t] = "append"]
          /\ UNCHANGED frame
  /\ UNCHANGED <<tables, scripts, clock, ip_requests, max_requests, time_window, admitted, last, plan, log>>

\* line 158: the time is appended to the client's list
AppendTime(t) ==
  /\ pc[t] = "append"
  /\ ip_requests' = Track(ip_requests, frame[t].ip_address, frame[t].current_time)
  /\ pc' = [pc EXCEPT ![t] = "forward"]
  /\ UNCHANGED <<tables, scripts, clock, max_requests, time_window, admitted, last, frame, plan, log>>

\* lines 161-163: the request is handed on and the answer returned
HandOn(t) ==
  /\ pc[t] = "forward"
  /\ LET r == Forward(ip_requests, frame[t].request, frame[t].downstream)
     IN  /\ frame' = [frame EXCEPT ![t].response = r.response,
                                   ![t].forwarded = r.forwarded]
         /\ admitted' = Remember(admitted, frame[t].request, frame[t].current_time,
                                 time_window, r.forwarded)
  /\ pc' = [pc EXCEPT ![t] = "done"]
  /\ UNCHANGED <<tables, scripts, clock, ip_requests, max_requests, time_window, last, plan, log>>

NextConc ==
  \/ \E t \in Threads, request \in Requests : Begin(t, request, Handled)
  \/ \E t \in Threads : CleanRead(t)
  \/ \E t \in Threads : CleanStore(t)
  \/ \E t \in Threads : CheckLimit(t)
  \/ \E t \in Threads : AppendTime(t)
  \/ \E t \in Threads : HandOn(t)

SpecConc == InitConc /\ [][NextConc]_vars

(* ------------------- the messaging application's signals --------------- *)

\* how many messages are created
MaxMessages == 2

\* how many times a stored message's content is changed
MaxEdits == 2

\* the texts a message can carry
Contents == {"hello", "hi"}

\* the pk of an instance that has none
NoPk == 0

\* the fields of a Message instance that are stored in its row
Row(instance) ==
  [sender |-> instance.sender, receiver |-> instance.receiver,
   content |-> instance.content, edited |-> instance.edited,
   edited_at |-> instance.edited_at, is_read |-> instance.is_read]

\* Message(sender=..., receiver=..., content=...): the defaults of the model's
\* fields, id = uuid.uuid4() among them, on an instance not yet in the table
NewMessage(pk, sender, receiver, content) ==
  [pk |-> pk, adding |-> TRUE, sender |-> sender, receiver |-> receiver,
   content |-> content, edited |-> FALSE, edited_at |-> None, is_read |-> FALSE]

\* the instance Message.objects.get(pk=pk) returns
StoredMessage(msgs, pk) ==
  [pk |-> pk, adding |-> FALSE, sender |-> msgs[pk].sender,
   receiver |-> msgs[pk].receiver, content |-> msgs[pk].content,
   edited |-> msgs[pk].edited, edited_at |-> msgs[pk].edited_at,
   is_read |-> msgs[pk].is_read]

\* Notification.objects.create(user=..., message=..., notification_type=...)
NotificationRow(user, message, notification_type) ==
  [user |-> user, message |-> message,
   notification_type |-> notification_type, is_read |-> FALSE]

\* the receiver without its test of created
CreateMessageNotificationAlways(notifs, instance, created) ==
  Append(notifs, NotificationRow(instance.receiver, instance.pk, "new_message"))

\* create_message_notification, receiver of post_save
CreateMessageNotification(notifs, instance, created) ==
  IF created
  THEN Append(notifs, NotificationRow(instance.receiver, instance.pk, "new_message"))
  ELSE notifs

\* the history row given the content being saved instead of the stored one
LogMessageEditNewContent(msgs, notifs, hist, instance) ==
  LET asItWas == [instance |-> instance, notifications |-> notifs, history |-> hist]
  IN  IF instance.pk = NoPk THEN asItWas
      ELSE IF instance.pk \notin DOMAIN msgs THEN asItWas
      ELSE LET old_message == msgs[instance.pk]
           IN  IF old_message.content # instance.content
               THEN [instance |-> [instance EXCEPT !.edited = TRUE, !.edited_at = "now"],
                     history |-> Append(hist, [message |-> instance.pk,
                                               old_content |-> instance.content,
                                               edited_by |-> instance.sender]),
                     notifications |->
                       Append(notifs, NotificationRow(instance.receiver, instance.pk,
                                                      "message_edited"))]
               ELSE asItWas

\* the notification of an edit created whether or not the content changed
LogMessageEditNotifyAlways(msgs, notifs, hist, instance) ==
  LET asItWas == [instance |-> instance, notifications |-> notifs, history |-> hist]
  IN  IF instance.pk = NoPk THEN asItWas
      ELSE IF instance.pk \notin DOMAIN msgs THEN asItWas
      ELSE LET old_message == msgs[instance.pk]
               told == Append(notifs, NotificationRow(instance.receiver, instance.pk,
                                                      "message_edited"))
           IN  IF old_message.content # instance.content
               THEN [instance |-> [instance EXCEPT !.edited = TRUE, !.edited_at = "now"],
                     history |-> Append(hist, [message |-> instance.pk,
                                               old_content |-> old_message.content,
                                               edited_by |-> instance.sender]),
                     notifications |-> told]
               ELSE [asItWas EXCEPT !.notifications = told]

\* log_message_edit, receiver of pre_save: it may change the instance and
\* add a history row and a notification
LogMessageEdit(msgs, notifs, hist, instance) ==
  LET asItWas == [instance |-> instance, notifications |-> notifs, history |-> hist]
  IN  IF instance.pk = NoPk THEN asItWas
      ELSE IF instance.pk \notin DOMAIN msgs THEN asItWas   \* Message.DoesNotExist
      ELSE LET old_message == msgs[instance.pk]
           IN  IF old_message.content # instance.content
               THEN [instance |-> [instance EXCEPT !.edited = TRUE, !.edited_at = "now"],
                     history |-> Append(hist, [message |-> instance.pk,
                                               old_content |-> old_message.content,
                                               edited_by |-> instance.sender]),
                     notifications |->
                       Append(notifs, NotificationRow(instance.receiver, instance.pk,
                                                      "message_edited"))]
               ELSE asItWas

\* instance.save(): pre_save's receiver, the row written (inserted when the
\* instance is new, updated otherwise), post_save's receivers with created
\* telling which
SaveInstance(msgs, notifs, hist, instance) ==
  LET pre == LogMessageEdit(msgs, notifs, hist, instance)
      created == instance.adding
  IN  [messages |-> Store(msgs, instance.pk, Row(pre.instance)),
       notifications |-> CreateMessageNotification(pre.notifications, pre.instance, created),
       history |-> pre.history]

\* Message.objects.create(sender=sender, receiver=receiver, content=content)
CreateMessage(sender, receiver, content) ==
  /\ issued < MaxMessages
  /\ sender \in users /\ receiver \in users
  /\ LET r == SaveInstance(messages, notifications, history,
                           NewMessage(issued + 1, sender, receiver, content))
     IN  /\ messages' = r.messages
         /\ notifications' = r.notifications
         /\ history' = r.history
  /\ issued' = issued + 1
  /\ UNCHANGED <<users, outcome, fetched, gates, scripts>>

\* a stored message is fetched, given a content and a read flag (the ones it
\* has, or others) and saved
SaveMessage(pk, content, is_read) ==
  /\ pk \in DOMAIN messages
  /\ Len(history) < MaxEdits
  /\ LET instance == [StoredMessage(messages, pk) EXCEPT !.content = content,
                                                         !.is_read = is_read]
         r == SaveInstance(messages, notifications, history, instance)
     IN  /\ messages' = r.messages
         /\ notifications' = r.notifications
         /\ history' = r.history
  /\ UNCHANGED <<users, issued, outcome, fetched, gates, scripts>>

NextMsg ==
  \/ \E sender \in UserIds, receiver \in UserIds, content \in Contents :
       CreateMessage(sender, receiver, content)
  \/ \E pk \in 1..MaxMessages, content \in Contents, is_read \in BOOLEAN :
       SaveMessage(pk, content, is_read)

SpecMsg == Init /\ [][NextMsg]_vars

(* ------------------------- deleting rows -------------------------------- *)
(* delete() collects the instance and, through the foreign keys declared    *)
(* on_delete=CASCADE, the rows that refer to it; inside one transaction it  *)
(* deletes the rows of Notification and MessageHistory, then those of       *)
(* Message, sending post_delete for each message, then those of User.       *)

\* when the database checks a foreign key: at the statement, at the commit
\* of the transaction, or not at all (an engine without foreign keys, or an
\* enclosing transaction, such as a test case's, that is still open)
FkChecks == {"immediate", "at commit", "never"}

\* on_delete=CASCADE of Message.sender and Message.receiver
MessagesOfUsers(msgs, us) ==
  { m \in DOMAIN msgs : msgs[m].sender \in us \/ msgs[m].receiver \in us }

\* handle_message_deletion_notification, receiver of post_delete: the row of
\* instance is gone when it runs; an insert the database refuses raises
\* inside the try and is swallowed
HandleMessageDeletionNotification(notifs, instance, fk) ==
  IF fk = "immediate"
  THEN notifs
  ELSE Append(notifs, NotificationRow(instance.receiver, instance.pk, "message_deleted"))

RECURSIVE PostDeleteAll(_, _, _, _)
\* post_delete sent for each of the deleted messages ms, one after another
PostDeleteAll(notifs, msgs, ms, fk) ==
  IF ms = {} THEN notifs
  ELSE LET m == CHOOSE x \in ms : \A y \in ms : x <= y
       IN  PostDeleteAll(
             HandleMessageDeletionNotification(notifs, StoredMessage(msgs, m), fk),
             msgs, ms \ {m}, fk)

\* the tables after the collector has deleted the users us and the messages
\* ms with all that refers to them, and the receivers of post_delete have run
Collected(us, ms, fk) ==
  LET kept_n == SelectSeq(notifications,
                          LAMBDA n : n.message \notin ms /\ n.user \notin us)
      kept_h == SelectSeq(history,
                          LAMBDA h : h.message \notin ms /\ h.edited_by \notin us)
  IN  [users |-> users \ us,
       messages |-> [m \in (DOMAIN messages) \ ms |-> messages[m]],
       notifications |-> PostDeleteAll(kept_n, messages, ms, fk),
       history |-> kept_h]

\* the end of the transaction of a delete() that deleted the messages ms:
\* a refused insert has marked it for rollback, an insert checked at commit
\* makes the commit fail; more says whether the collector had a statement to
\* run after the receivers
Finish(us, ms, fk, more) ==
  LET after == Collected(us, ms, fk)
      undone == ms # {} /\ fk # "never"
  IN  /\ users' = IF undone THEN users ELSE after.users
      /\ messages' = IF undone THEN messages ELSE after.messages
      /\ notifications' = IF undone THEN notifications ELSE after.notifications
      /\ history' = IF undone THEN history ELSE after.history
      /\ outcome' = IF ~undone THEN "deleted"
                    ELSE IF fk = "at commit" THEN "IntegrityError"
                    ELSE IF more THEN "TransactionManagementError"
                    ELSE "rolled back"

\* message.delete() of a stored message
DeleteMessage(pk, fk) ==
  /\ pk \in DOMAIN messages
  /\ Finish({}, {pk}, fk, FALSE)
  /\ UNCHANGED <<issued, fetched, gates, scripts>>

\* user.delete() of a stored user
DeleteUser(u, fk) ==
  /\ u \in users
  /\ Finish({u}, MessagesOfUsers(messages, {u}), fk, TRUE)
  /\ UNCHANGED <<issued, fetched, gates, scripts>>

NextDel ==
  \/ NextMsg
  \/ \E pk \in 1..MaxMessages, fk \in FkChecks : DeleteMessage(pk, fk)
  \/ \E u \in UserIds, fk \in FkChecks : DeleteUser(u, fk)

SpecDel == Init /\ [][NextDel]_vars

(* ------------------------ the unread manager ---------------------------- *)
(* A queryset is the set of the ids of its rows.                            *)

\* UnreadMessagesManager.get_queryset: .filter(is_read=False)
UnreadGetQueryset(msgs) == { m \in DOMAIN msgs : msgs[m].is_read = FALSE }

\* the filter applied to all the messages, read ones too
UnreadForUserOfAll(msgs, user) ==
  { m \in DOMAIN msgs : msgs[m].receiver = user }

\* UnreadMessagesManager.unread_for_user: self.filter(receiver=user), the
\* manager's own queryset filtered
UnreadForUser(msgs, user) ==
  { m \in UnreadGetQueryset(msgs) : msgs[m].receiver = user }

\* Message.unread.all() and Message.unread.unread_for_user(user)
QueryUnread(user) ==
  /\ fetched' = [user |-> user,
                 all |-> UnreadGetQueryset(messages),
                 for_user |-> UnreadForUser(messages, user)]
  /\ UNCHANGED <<users, messages, notifications, history, issued, outcome, gates, scripts>>

NextUnread ==
  \/ NextMsg
  \/ \E user \in UserIds : QueryUnread(user)

SpecUnread == Init /\ [][NextUnread]_vars

(* ----------------------- RolePermissionMiddleware ----------------------- *)
(* A path is the list of the pieces its string has between the slashes:     *)
(* '/api/admin/' is <<"", "api", "admin", "">>.                             *)

\* self.protected_paths
protected_paths ==
  << <<"", "api", "admin", "">>,
     <<"", "api", "moderate", "">>,
     <<"", "api", "users", "delete", "">>,
     <<"", "api", "conversations", "delete", "">> >>

\* str.startswith for a prefix that ends with a slash: the pieces before the
\* prefix's last slash are the path's, and the path goes on after that slash
\* with anything, nothing included
StartsWith(path, prefix) ==
  /\ Len(path) >= Len(prefix)
  /\ \A i \in 1..(Len(prefix) - 1) : path[i] = prefix[i]

\* the paths requests come with
Paths ==
  { <<"", "api", "admin", "">>,
    <<"", "api", "admin", "users">>,
    <<"", "api", "admin">>,
    <<"", "api", "administrator", "">>,
    <<"", "api", "moderate", "queue">>,
    <<"", "api", "users", "delete", "7">>,
    <<"", "api", "users", "7">>,
    <<"", "api", "conversations", "delete", "">>,
    <<"", "v1", "api", "admin", "">>,
    <<"", "api", "messages", "">> }

\* a user object without the attribute role
NoRole == "no attribute"

\* request.user: an AnonymousUser or a User
RoleUsers ==
  [is_authenticated : BOOLEAN, is_staff : BOOLEAN, is_superuser : BOOLEAN,
   role : {"guest", "host", "admin", "moderator", NoRole}]

RoleRequests == [path : Paths, user : RoleUsers]

\* any role at all taken for a privilege
HasPrivilegeAnyRole(user) ==
  user.is_staff \/ user.is_superuser \/ user.role # NoRole

\* lines 224-225: is_staff or is_superuser or (hasattr(user, 'role') and
\* user.role in ['admin', 'moderator'])
HasPrivilege(user) ==
  user.is_staff \/ user.is_superuser \/
    (user.role # NoRole /\ user.role \in {"admin", "moderator"})

\* RolePermissionMiddleware.__call__
RolePermissionCall(request, downstream) ==
  IF \E i \in DOMAIN protected_paths : StartsWith(request.path, protected_paths[i])
  THEN IF ~request.user.is_authenticated
       THEN [response |-> HttpResponseForbidden(<<"Authentication required">>),
             forwarded |-> <<>>]
       ELSE IF ~HasPrivilege(request.user)
       THEN [response |-> HttpResponseForbidden(<<"Admin or moderator access required">>),
             forwarded |-> <<>>]
       ELSE [response |-> downstream, forwarded |-> <<request>>]
  ELSE [response |-> downstream, forwarded |-> <<request>>]

\* one request goes through the role middleware
RoleGate(request, downstream) ==
  LET r == RolePermissionCall(request, downstream)
  IN  /\ last' = Evaluation("role", request, clock, NoTime, <<>>, r.response, r.forwarded)
      /\ UNCHANGED <<tables, scripts, clock, ip_requests, max_requests, time_window,
                     admitted, pc, frame, plan, log>>

NextRole ==
  \E request \in RoleRequests, downstream \in DownstreamResponses :
    RoleGate(request, downstream)

SpecRole == Init /\ [][NextRole]_vars

(* -------------------------------- wait_n -------------------------------- *)
(* Time is counted in ticks as small as the time the event loop takes to    *)
(* start one task; the delays random.uniform draws are whole ticks.         *)

\* the largest n
MaxTasks == 3

\* the largest max_delay, in ticks
MaxDelay == 2

\* the most ticks the loop's clock moves while one task is started
MaxSkew == 2

\* asyncio.create_task(wait_random(max_delay)): a task yet to run
CreatedTask == [state |-> "created", delay |-> 0, when |-> 0]

\* wait_n(n, max_delay) has built its list of n tasks
InitWaits ==
  /\ clock = 0
  /\ ip_requests = <<>>
  /\ max_requests = DefaultMaxRequests
  /\ time_window = DefaultTimeWindow
  /\ admitted = [k \in Keys |-> <<>>]
  /\ last = NoEvaluation
  /\ pc = [t \in Threads |-> "idle"]
  /\ frame = [t \in Threads |-> IdleFrame]
  /\ plan = <<>>
  /\ log = <<>>
  /\ TablesAtStart
  /\ retry = NoRetry
  /\ \E n \in 0..MaxTasks, max_delay \in 0..MaxDelay :
       waits = [NoWaits EXCEPT !.pc = "running", !.n = n, !.max_delay = max_delay,
                               !.tasks = [i \in 1..n |-> CreatedTask]]
  /\ pager = NoPager

\* the tasks in a state
TasksIn(state) == { i \in DOMAIN waits.tasks : waits.tasks[i].state = state }

\* the loop runs the next task it was given, up to its await: wait_random
\* draws its delay and asyncio.sleep sets a timer at the loop's time + delay;
\* the loop's clock has moved a little by the time the next task runs
StartTask ==
  /\ waits.pc = "running"
  /\ TasksIn("created") # {}
  /\ LET i == CHOOSE x \in TasksIn("created") : \A y \in TasksIn("created") : x <= y
     IN  \E delay \in 0..waits.max_delay, skew \in 0..MaxSkew :
           waits' = [waits EXCEPT !.tasks[i] = [state |-> "sleeping", delay |-> delay,
                                                when |-> waits.now + delay],
                                  !.now = @ + skew]
  /\ UNCHANGED <<gates, tables, retry, pager>>

\* the timer that is due first fires, its task returns its delay, and
\* as_completed hands that result to the list being built
CompleteTask ==
  /\ waits.pc = "running"
  /\ TasksIn("created") = {}
  /\ \E i \in TasksIn("sleeping") :
       /\ \A j \in TasksIn("sleeping") : waits.tasks[i].when <= waits.tasks[j].when
       /\ waits' = [waits EXCEPT !.tasks[i].state = "done",
                                 !.now = IF @ < waits.tasks[i].when
                                         THEN waits.tasks[i].when ELSE @,
                                 !.results = Append(@, waits.tasks[i].delay)]
  /\ UNCHANGED <<gates, tables, retry, pager>>

\* every task is done: the list is returned
ReturnDelays ==
  /\ waits.pc = "running"
  /\ TasksIn("created") = {} /\ TasksIn("sleeping") = {}
  /\ waits' = [waits EXCEPT !.pc = "returned"]
  /\ UNCHANGED <<gates, tables, retry, pager>>

NextWaits == StartTask \/ CompleteTask \/ ReturnDelays

SpecWaits == InitWaits /\ [][NextWaits]_vars

(* ----------------------------- lazy_paginate ---------------------------- *)
(* pager.fetched is the list of the offsets paginate_users was called with, *)
(* pager.asked the number of times the consumer has called next().          *)

\* the most rows user_data holds
MaxRows == 6

\* the largest page_size
MaxPageSize == 4

\* the rows of user_data, in the order of its primary key
Table(n) == [i \in 1..n |-> i]

\* paginate_users: SELECT * FROM user_data LIMIT page_size OFFSET offset
PaginateUsers(table, page_size, offset) ==
  LET upto == IF offset + page_size < Len(table) THEN offset + page_size
              ELSE Len(table)
  IN  SubSeq(table, offset + 1, upto)

\* the offset moved by one row whatever the size of the page
NextOffsetByOne(offset, page_size) == offset + 1

\* line 55: offset += page_size
NextOffset(offset, page_size) == offset + page_size

\* lazy_paginate(page_size) has been called: a generator whose body has not
\* started
InitPager ==
  /\ clock = 0
  /\ ip_requests = <<>>
  /\ max_requests = DefaultMaxRequests
  /\ time_window = DefaultTimeWindow
  /\ admitted = [k \in Keys |-> <<>>]
  /\ last = NoEvaluation
  /\ pc = [t \in Threads |-> "idle"]
  /\ frame = [t \in Threads |-> IdleFrame]
  /\ plan = <<>>
  /\ log = <<>>
  /\ TablesAtStart
  /\ retry = NoRetry
  /\ waits = NoWaits
  /\ \E n \in 0..MaxRows, page_size \in 0..MaxPageSize :
       pager = [NoPager EXCEPT !.pc = "created", !.page_size = page_size,
                               !.table = Table(n)]

\* the consumer calls next(): the body runs from where it stands (line 47,
\* or line 55 after a yield) to the next yield or to the break
PagerNext ==
  /\ pager.pc \in {"created", "suspended"}
  /\ LET offset == IF pager.pc = "created" THEN 0
                   ELSE NextOffset(pager.offset, pager.page_size)
         page == PaginateUsers(pager.table, pager.page_size, offset)
     IN  pager' = [pager EXCEPT !.offset = offset,
                                !.asked = @ + 1,
                                !.fetched = Append(@, offset),
                                !.yielded = IF page = <<>> THEN @ ELSE Append(@, page),
                                !.pc = IF page = <<>> THEN "finished" ELSE "suspended"]
  /\ UNCHANGED <<gates, tables, retry, waits>>

NextPager == PagerNext

SpecPager == InitPager /\ [][NextPager]_vars

(* --------------------------- retry_on_failure --------------------------- *)
(* One call of the wrapper.  retry.events is the sequence of                *)
(* the calls of func and of time.sleep it has made.                         *)

\* the largest retries a decorator is given
MaxRetries == 3

\* the values of delay: fetch_users_with_retry's and the default
Delays == {1, 2}

\* what func returns
Returns == {"rows"}

\* the exceptions func raises that "except Exception" catches
Errors == {"OperationalError", "ValueError"}

\* the exceptions func raises that it does not catch
BaseExceptions == {"KeyboardInterrupt"}

\* the ways a call of func ends
CallOutcomes ==
  [how : {"return"}, value : Returns] \cup
  [how : {"raise"}, value : Errors \cup BaseExceptions]

CallEvent(o) == [kind |-> "call", how |-> o.how, value |-> o.value, secs |-> 0]

SleepEvent(delay) == [kind |-> "sleep", how |-> "sleep", value |-> "", secs |-> delay]

\* the test made after every failed attempt, the last one too
ShouldSleepAfterLast(attempt, retries) == attempt <= retries

\* line 29: if attempt < retries
ShouldSleep(attempt, retries) == attempt < retries

\* the wrapper has been called: last_exception = None, the loop about to
\* take the first value of range(1, retries + 1)
InitRetry ==
  /\ clock = 0
  /\ ip_requests = <<>>
  /\ max_requests = DefaultMaxRequests
  /\ time_window = DefaultTimeWindow
  /\ admitted = [k \in Keys |-> <<>>]
  /\ last = NoEvaluation
  /\ pc = [t \in Threads |-> "idle"]
  /\ frame = [t \in Threads |-> IdleFrame]
  /\ plan = <<>>
  /\ log = <<>>
  /\ TablesAtStart
  /\ \E r \in 0..MaxRetries, d \in Delays :
       retry = [NoRetry EXCEPT !.pc = "loop", !.retries = r, !.delay = d,
                               !.attempt = 1]
  /\ waits = NoWaits
  /\ pager = NoPager

\* line 24 and line 35: the next value of the range, or the end of the loop
\* and "raise last_exception" (raising None is a TypeError)
RetryLoop ==
  /\ retry.pc = "loop"
  /\ retry' = IF retry.attempt <= retry.retries
              THEN [retry EXCEPT !.pc = "call"]
              ELSE [retry EXCEPT !.pc = "done",
                                 !.result = IF retry.last_exception = None
                                            THEN <<"raise", "TypeError">>
                                            ELSE <<"raise", retry.last_exception>>]
  /\ UNCHANGED <<gates, tables, waits, pager>>

\* lines 25-33: func is called; its result is returned, or its exception
\* kept and the next attempt prepared, or its exception not caught
RetryCall ==
  /\ retry.pc = "call"
  /\ \E o \in CallOutcomes :
       LET called == [retry EXCEPT !.events = Append(@, CallEvent(o))]
       IN  retry' =
             IF o.how = "return"
             THEN [called EXCEPT !.pc = "done", !.result = <<"return", o.value>>]
             ELSE IF o.value \in BaseExceptions
             THEN [called EXCEPT !.pc = "done", !.result = <<"raise", o.value>>]
             ELSE IF ShouldSleep(retry.attempt, retry.retries)
             THEN [called EXCEPT !.pc = "sleep", !.last_exception = o.value]
             ELSE [called EXCEPT !.pc = "loop", !.last_exception = o.value,
                                 !.attempt = @ + 1]
  /\ UNCHANGED <<gates, tables, waits, pager>>

\* line 31: time.sleep(delay)
RetrySleep ==
  /\ retry.pc = "sleep"
  /\ retry' = [retry EXCEPT !.pc = "loop", !.attempt = @ + 1,
                            !.events = Append(@, SleepEvent(retry.delay))]
  /\ UNCHANGED <<gates, tables, waits, pager>>

NextRetry == RetryLoop \/ RetryCall \/ RetrySleep

SpecRetry == InitRetry /\ [][NextRetry]_vars

(* ======================================================================= *)
(*                               properties                                *)
(* ======================================================================= *)

\* the last evaluation was the rate gate's, of a POST
LastIsPost == last.gate = "rate" /\ last.request.method = "POST"

LastKey == GetClientIp(last.request)

LastAdmitted == last.forwarded # <<>>

\* number of the let-through POSTs of client k inside the window (t - W, t]
InWindow(k, t) ==
  Cardinality({ j \in DOMAIN admitted[k] :
                  admitted[k][j] > t - time_window /\ admitted[k][j] <= t })

\* the entries of list that are younger than the window at time now
StillInside(list, now) == SelectSeq(list, LAMBDA u : u > now - time_window)

\* the smallest entry of a non-empty list
Oldest(list) == CHOOSE u \in { list[i] : i \in DOMAIN list } :
                  \A i \in DOMAIN list : u <= list[i]

\* C1: served one at a time with a clock that never goes back, every POST
\* that is let through at time t has at most max_requests let-through POSTs
\* of its client in (t - time_window, t], itself included.
C1_QuotaSequential ==
  \A k \in Keys : \A i \in DOMAIN admitted[k] :
    InWindow(k, admitted[k][i]) <= max_requests

\* a POST is let through as the max_requests-th of a window that began at an
\* earlier instant
C1_Witness ==
  /\ LastIsPost /\ LastAdmitted
  /\ InWindow(LastKey, last.now) = max_requests
  /\ admitted[LastKey][1] < last.now

\* C6: a POST the rate gate rejects is not counted: the client's list after
\* the rejection is the list found before it less its expired entries, so it
\* has no new entry, and the history of let-through POSTs does not change.
C6_RejectedNotCounted ==
  (LastIsPost /\ ~LastAdmitted) =>
    /\ LastKey \in DOMAIN ip_requests
    /\ ip_requests[LastKey] = StillInside(last.before, last.now)
    /\ Len(ip_requests[LastKey]) <= Len(last.before)
    /\ Len(last.before) >= max_requests

\* a client at its quota, with entries of two instants, is rejected
C6_Witness ==
  /\ LastIsPost /\ ~LastAdmitted
  /\ Len(ip_requests[LastKey]) = max_requests
  /\ ip_requests[LastKey][1] < ip_requests[LastKey][max_requests]

\* C7: a request that is not a POST is let through by the rate gate whatever
\* its client's list holds, and the whole map of lists is left as it was: no
\* key created, nothing appended, nothing pruned.
C7_NonPostBypasses ==
  [][\A request \in Requests, downstream \in DownstreamResponses :
       (RateGate(request, downstream) /\ request.method # "POST") =>
          /\ ip_requests' = ip_requests
          /\ admitted' = admitted
          /\ last'.forwarded = <<request>>
          /\ last'.response = downstream]_vars

\* a GET of a client whose list is full of entries inside the window, and
\* that also holds an expired entry of the other client, is let through
C7_Witness ==
  /\ last.gate = "rate" /\ last.request.method = "GET" /\ LastAdmitted
  /\ LastKey \in DOMAIN ip_requests
  /\ Len(ip_requests[LastKey]) = max_requests
  /\ StillInside(ip_requests[LastKey], last.now) = ip_requests[LastKey]
  /\ \E k \in Keys \ {LastKey} : k \notin DOMAIN ip_requests

\* what the rate gate would decide for request at the present instant
WouldAdmit(ipr, request) ==
  OffensiveLanguageCall(ipr, request, clock, max_requests, time_window,
                        Handled).forwarded # <<>>

\* C8: the evaluation of a request of one client leaves the list of every
\* other client as it was (not created, not appended to, not pruned), so what
\* the gate decides for another client's request does not change.
C8_ClientsIndependent ==
  [][\A request \in Requests, downstream \in DownstreamResponses :
       RateGate(request, downstream) =>
         \A other \in Requests :
           GetClientIp(other) # GetClientIp(request) =>
             /\ GetClientIp(other) \in DOMAIN ip_requests'
                  <=> GetClientIp(other) \in DOMAIN ip_requests
             /\ Lookup(ip_requests', GetClientIp(other))
                  = Lookup(ip_requests, GetClientIp(other))
             /\ WouldAdmit(ip_requests', other) = WouldAdmit(ip_requests, other)]_vars

\* a POST of one client is let through while another client is at its quota
\* and yet another POST of the first would still be let through
C8_Witness ==
  /\ LastIsPost /\ LastAdmitted
  /\ Len(ip_requests[LastKey]) < max_requests
  /\ \E k \in (DOMAIN ip_requests) \ {LastKey} :
       /\ Len(ip_requests[k]) = max_requests
       /\ StillInside(ip_requests[k], last.now) = ip_requests[k]

\* C9: after the evaluation of a POST of client k at time now, let through
\* or not, every entry t of k's list has now - t < time_window; the expired
\* entries are gone before the length is compared with max_requests.
C9_RetainedInsideWindow ==
  LastIsPost =>
    /\ \A i \in DOMAIN ip_requests[LastKey] :
         last.now - ip_requests[LastKey][i] < time_window
    /\ LastAdmitted <=> Len(StillInside(last.before, last.now)) < max_requests

\* a POST finds a list with expired and unexpired entries
C9_Witness ==
  /\ LastIsPost
  /\ \E i \in DOMAIN last.before : last.now - last.before[i] >= time_window
  /\ \E i \in DOMAIN last.before : last.now - last.before[i] < time_window

\* C10: an entry is kept exactly if now - entry < time_window, so an entry
\* that is exactly time_window old is dropped; a client that holds
\* max_requests entries, the oldest of time t1, is let through at exactly
\* t1 + time_window and rejected at every earlier time.
C10_PruningBoundary ==
  LastIsPost =>
    LET kept == IF LastAdmitted
                THEN SubSeq(ip_requests[LastKey], 1, Len(ip_requests[LastKey]) - 1)
                ELSE ip_requests[LastKey]
    IN  /\ kept = SelectSeq(last.before, LAMBDA u : ~(last.now - u >= time_window))
        /\ \A i \in DOMAIN kept : kept[i] # last.now - time_window
        /\ Len(last.before) = max_requests =>
             /\ last.now = Oldest(last.before) + time_window => LastAdmitted
             /\ last.now < Oldest(last.before) + time_window => ~LastAdmitted

\* a client with max_requests entries is let through at exactly the oldest
\* entry's time plus time_window, younger entries being kept
C10_Witness ==
  /\ LastIsPost /\ LastAdmitted
  /\ Len(last.before) = max_requests
  /\ last.now = Oldest(last.before) + time_window
  /\ Len(ip_requests[LastKey]) > 1

\* a client with max_requests entries is rejected one second before that
C10_WitnessEarlier ==
  /\ LastIsPost /\ ~LastAdmitted
  /\ Len(last.before) = max_requests
  /\ last.now = Oldest(last.before) + time_window - 1

\* minutes since midnight of a time of day
MinuteOfDay(tod) == tod[1] * 60 + tod[2]

\* C4: the time gate lets a request through exactly if the time of day t has
\* t >= 21:00 or t < 06:00 and rejects it if 06:00 <= t < 21:00, whatever
\* the request is and whatever was evaluated before.
C4_TimeWindowRule ==
  last.gate = "time" =>
    LET t == MinuteOfDay(last.tod)
    IN  /\ LastAdmitted <=> (t >= 21 * 60 \/ t < 6 * 60)
        /\ (6 * 60 <= t /\ t < 21 * 60) =>
             /\ last.forwarded = <<>>
             /\ last.response = HttpResponseForbidden(AccessDeniedBody)
        /\ last.tod = <<21, 0>> => LastAdmitted
        /\ last.tod = <<6, 0>> => ~LastAdmitted

\* a POST is let through at 21:00 exactly
C4_Witness ==
  /\ last.gate = "time" /\ last.tod = <<21, 0>>
  /\ last.request.method = "POST" /\ LastAdmitted

\* a request is rejected at 06:00 exactly
C4_WitnessSix ==
  /\ last.gate = "time" /\ last.tod = <<6, 0>> /\ ~LastAdmitted

\* the rate gate has to reject request: a POST of a client with
\* max_requests or more entries inside the window
RateMustReject(request) ==
  /\ request.method = "POST"
  /\ Len(StillInside(Lookup(ip_requests, GetClientIp(request)), clock)) >= max_requests

\* the time gate has to reject at time of day tod
TimeMustReject(tod) == 6 * 60 <= MinuteOfDay(tod) /\ MinuteOfDay(tod) < 21 * 60

\* the outcome of an evaluation that forwards request and gets answer
Forwarded(request, answer) ==
  /\ last'.forwarded = <<request>>
  /\ last'.response = answer

\* the outcome of an evaluation that ends in the gate
Terminal ==
  /\ last'.forwarded = <<>>
  /\ last'.response.status = 403
  /\ last'.response \notin DownstreamResponses

\* C5: for either gate, a rejected request never reaches get_response, and a
\* request let through is passed to get_response once, as it came, and what
\* get_response answers is what the gate returns.
C5_ForwardOrTerminal ==
  [][\A request \in Requests, downstream \in DownstreamResponses :
       /\ RateGate(request, downstream) =>
            IF RateMustReject(request) THEN Terminal
            ELSE Forwarded(request, downstream)
       /\ \A tod \in BoundaryTimes :
            TimeGate(request, tod, downstream) =>
              IF TimeMustReject(tod) THEN Terminal
              ELSE Forwarded(request, downstream)]_vars

\* the rate gate rejects a POST after the time gate or the rate gate passed
\* on a 404 of the handler: the last evaluation ended in the gate
C5_Witness ==
  /\ LastIsPost /\ ~LastAdmitted
  /\ last.response = HttpResponseForbidden(RateLimitBody(max_requests))
  /\ Len(ip_requests[LastKey]) = max_requests

\* the time gate returns the handler's 404 for a request it let through
C5_WitnessTime ==
  /\ last.gate = "time" /\ LastAdmitted
  /\ last.response.status = 404
  /\ last.forwarded = <<last.request>>

\* the list of the client of the burst
BurstList == Lookup(ip_requests, GetClientIp(BurstRequest))

\* C3: with max_requests = 5 and time_window = 60, of the POSTs of one client
\* at t1 < ... < t6 less than 60 seconds apart the first five are let through
\* and recorded and the sixth is rejected; a seventh POST after t1 + 60, the
\* client's next one, is let through.
C3_BurstOfSix ==
  (plan # <<>> /\ max_requests = 5 /\ time_window = 60) =>
    /\ \A i \in 1..5 : Len(log) >= i =>
         /\ log[i] = "admit"
         /\ Len(log) <= 6 =>
              \E j \in DOMAIN BurstList : BurstList[j] = plan[i]
    /\ Len(log) >= 6 => log[6] = "reject"
    /\ Len(log) = 6 => Len(BurstList) = 5
    /\ Len(log) >= 7 => log[7] = "admit"

\* the run is over: the six requests came within 59 seconds, other clients
\* sent POSTs too, and the decisions were 5 admit, reject, admit
C3_Witness ==
  /\ Len(log) = 7
  /\ log = <<"admit", "admit", "admit", "admit", "admit", "reject", "admit">>
  /\ plan[6] - plan[1] = 59
  /\ plan[7] = plan[1] + 61
  /\ \E k \in Keys \ {GetClientIp(BurstRequest)} : admitted[k] # <<>>

\* C2: when POSTs of one client are evaluated concurrently, the decision to
\* let a request through and the append of its time are one atomic step, so
\* no window of time_window seconds ever holds more than max_requests
\* let-through POSTs of a client.
C2_QuotaConcurrent ==
  \A k \in Keys : \A t \in Instants :
    Cardinality({ j \in DOMAIN admitted[k] :
                    t - time_window < admitted[k][j] /\ admitted[k][j] <= t })
      <= max_requests

\* C11: with max_requests = 2 and time_window = 10, the POSTs of one client
\* at t = 0, 3, 6, 9, 12 get the decisions admit, admit, reject, reject,
\* admit, in that order.
C11_ScenarioDecisions ==
  (plan = <<0, 3, 6, 9, 12>> /\ max_requests = 2 /\ time_window = 10) =>
    /\ Len(log) <= 5
    /\ \A i \in DOMAIN log :
         log[i] = <<"admit", "admit", "reject", "reject", "admit">>[i]

\* the five requests have been decided, the last one at t = 12
C11_Witness ==
  /\ plan = <<0, 3, 6, 9, 12>> /\ max_requests = 2 /\ time_window = 10
  /\ log = <<"admit", "admit", "reject", "reject", "admit">>
  /\ clock = 12

\* C12 as stated: when the POST at t = 12 is evaluated, the entries 0 and 3
\* have both aged out and are pruned, and the client's list holds 12 alone.
C12_OnlyTwelveRetained ==
  (plan = <<0, 3, 6, 9, 12>> /\ max_requests = 2 /\ time_window = 10
     /\ Len(log) = 5) =>
    BurstList = <<12>>

\* C12, amended: when the POST at t = 12 is evaluated it finds the entries 0
\* and 3; only 0 has aged out (12 - 0 >= 10) and is pruned, 3 is kept
\* (12 - 3 = 9 < 10), and the client's list after the request is 3, 12.
C12_ThreeAndTwelveRetained ==
  (plan = <<0, 3, 6, 9, 12>> /\ max_requests = 2 /\ time_window = 10
     /\ Len(log) = 5) =>
    /\ BurstList = <<3, 12>>
    /\ (LastIsPost /\ LastKey = GetClientIp(BurstRequest)) =>
         /\ last.before = <<0, 3>>
         /\ last.now = 12

\* the POST at t = 12 has just been evaluated
C12_Witness ==
  /\ plan = <<0, 3, 6, 9, 12>> /\ max_requests = 2 /\ time_window = 10
  /\ Len(log) = 5 /\ log[5] = "admit"
  /\ LastIsPost /\ LastKey = GetClientIp(BurstRequest) /\ last.now = 12

\* C13: a client at its quota is not locked out: if its list holds
\* max_requests entries, the oldest of time t0, a POST of that client at any
\* time >= t0 + time_window is let through; a POST rejected before that
\* leaves the list, and so the oldest entry, as it was.
C13_QuotaRecovers ==
  LastIsPost =>
    /\ (Len(last.before) >= max_requests
          /\ last.now >= Oldest(last.before) + time_window) => LastAdmitted
    /\ ~LastAdmitted =>
         /\ ip_requests[LastKey] = last.before
         /\ Oldest(ip_requests[LastKey]) = Oldest(last.before)

\* a client filled its quota, was rejected, and is let through once its
\* oldest entry is time_window old, the list it is found with being the full
\* one the rejection left
C13_Witness ==
  /\ Len(log) = 7 /\ log[6] = "reject" /\ log[7] = "admit"
  /\ LastIsPost /\ LastKey = GetClientIp(BurstRequest) /\ LastAdmitted
  /\ Len(last.before) = max_requests
  /\ last.before[1] = plan[1]
  /\ last.now = Oldest(last.before) + time_window

\* the first entry of a header that was sent and is not empty, else nothing
FirstEntry(meta) ==
  IF meta.HTTP_X_FORWARDED_FOR \in {NoHeader, <<"">>}
  THEN <<>>
  ELSE <<Head(meta.HTTP_X_FORWARDED_FOR)>>

\* the bucket a POST has to be counted in
BucketOf(request) ==
  IF FirstEntry(request.META) # <<>>
  THEN FirstEntry(request.META)[1]
  ELSE request.META.REMOTE_ADDR

\* a request that names its client in no way
Anonymous(request) ==
  /\ FirstEntry(request.META) = <<>>
  /\ request.META.REMOTE_ADDR = None

\* C14: a POST is counted in the bucket named by the first entry of its
\* X-Forwarded-For header when the header is there and not empty, and by
\* REMOTE_ADDR otherwise: that bucket exists afterwards, it decides the
\* outcome, it alone changes, and so requests with the same first entry share
\* a bucket whatever their REMOTE_ADDR.
C14_ClientKeyResolution ==
  [][ (last'.gate = "rate" /\ last'.request.method = "POST") =>
        LET k == BucketOf(last'.request)
            found == Lookup(ip_requests, k)
        IN  /\ k \in DOMAIN ip_requests'
            /\ \A j \in DOMAIN ip_requests : j # k => ip_requests'[j] = ip_requests[j]
            /\ DOMAIN ip_requests' = DOMAIN ip_requests \cup {k}
            /\ last'.forwarded = <<>> <=> Len(StillInside(found, clock)) >= max_requests
            /\ last'.forwarded # <<>> =>
                 ip_requests'[k] = Append(StillInside(found, clock), clock)
    ]_vars

\* a POST that came from address B with the header "A,C" is rejected because
\* bucket A is full, while B has no bucket at all
C14_Witness ==
  /\ LastIsPost /\ ~LastAdmitted
  /\ last.request.META = [HTTP_X_FORWARDED_FOR |-> <<"A", "C">>, REMOTE_ADDR |-> "B"]
  /\ "B" \notin DOMAIN ip_requests
  /\ Len(Lookup(ip_requests, "A")) = max_requests

\* C15: a POST with no (or an empty) X-Forwarded-For header and no
\* REMOTE_ADDR is answered like any other: it is counted under the one key
\* None, whose list never holds more than max_requests entries, it is let
\* through while fewer than max_requests are in the window and rejected with
\* the rate limit's 403 otherwise.
C15_AnonymousShareOneBucket ==
  (LastIsPost /\ Anonymous(last.request)) =>
    /\ None \in DOMAIN ip_requests
    /\ Len(ip_requests[None]) <= max_requests
    /\ StillInside(ip_requests[None], last.now) = ip_requests[None]
    /\ IF Len(last.before) >= max_requests
       THEN /\ ~LastAdmitted
            /\ last.response = HttpResponseForbidden(RateLimitBody(max_requests))
            /\ ip_requests[None] = last.before
       ELSE /\ last.forwarded = <<last.request>>
            /\ last.response = Handled
            /\ ip_requests[None] = Append(last.before, last.now)

\* the anonymous bucket is full and an anonymous POST, one with an empty
\* header, is rejected
C15_Witness ==
  /\ LastIsPost /\ Anonymous(last.request) /\ ~LastAdmitted
  /\ last.request.META.HTTP_X_FORWARDED_FOR = <<"">>
  /\ Len(ip_requests[None]) = max_requests
  /\ last.response.status = 403

\* C16: an evaluation that does not hand the request on ends in one of two
\* answers, fixed by the gate that gave it: status 403 with the body "Access
\* denied: Chat is only available from 9PM to 6AM" from the time gate, status
\* 403 with the body "Rate limit exceeded: Maximum {max} messages per minute
\* allowed", {max} being max_requests, from the rate gate; every other answer
\* is the handler's.
C16_TwoRejectionKinds ==
  last.gate # "none" =>
    \/ /\ last.forwarded = <<last.request>>
       /\ last.response \in DownstreamResponses
    \/ /\ last.forwarded = <<>>
       /\ last.gate = "time"
       /\ last.response.status = 403
       /\ last.response.body =
            <<"Access denied: Chat is only available from 9PM to 6AM">>
    \/ /\ last.forwarded = <<>>
       /\ last.gate = "rate"
       /\ last.response.status = 403
       /\ last.response.body =
            <<"Rate limit exceeded: Maximum ", ToString(max_requests),
              " messages per minute allowed">>

\* the rate gate has answered a POST with its 403, the limit being 5
C16_Witness ==
  /\ last.gate = "rate" /\ last.forwarded = <<>>
  /\ last.response =
       [status |-> 403,
        body |-> <<"Rate limit exceeded: Maximum ", "5", " messages per minute allowed">>]

\* the time gate has answered a request of 20:59 with its 403
C16_WitnessTime ==
  /\ last.gate = "time" /\ last.forwarded = <<>>
  /\ last.tod = <<20, 59>>
  /\ last.response =
       [status |-> 403,
        body |-> <<"Access denied: Chat is only available from 9PM to 6AM">>]

\* C17: the time gate keeps nothing from one evaluation to the next: however
\* many times it is asked at one time of day, and whatever either gate did in
\* between, the decision is the one it gave the first time, and a request
\* going through it leaves the rate gate's state and configuration as they
\* were.
C17_TimeGateStateless ==
  [][ /\ log' # log =>
           \A i \in DOMAIN log : log'[Len(log')] = log[i]
      /\ last'.gate = "time" =>
           UNCHANGED <<ip_requests, admitted, max_requests, time_window, clock>>
    ]_vars

\* the gate has been asked MaxRepeats times at 21:00, POSTs having been
\* counted by the rate gate meanwhile
C17_Witness ==
  /\ plan = <<(<<21, 0>>)>>
  /\ Len(log) = MaxRepeats /\ log[1] = "admit" /\ log[MaxRepeats] = "admit"
  /\ last.gate = "time" /\ last.tod = plan[1]
  /\ ip_requests # <<>>

\* C18: with the time gate in front of the rate gate, a request that comes
\* between 06:00 and 21:00 is answered by the time gate's 403 and the rate
\* gate's state is as it was before: no list is created, cleaned or
\* appended to, so a POST of the day uses up none of its client's quota.
C18_TimeRejectionShortCircuits ==
  [][ (last'.gate = "chain" /\ TimeMustReject(last'.tod)) =>
        /\ Terminal
        /\ last'.response.body =
             <<"Access denied: Chat is only available from 9PM to 6AM">>
        /\ UNCHANGED <<ip_requests, admitted>>
    ]_vars

\* a POST of 20:59 has been turned away by the chain; its client, with some
\* POSTs counted before and room for more, has the list it had
C18_Witness ==
  /\ last.gate = "chain" /\ last.request.method = "POST"
  /\ last.tod = <<20, 59>> /\ last.forwarded = <<>>
  /\ last.before # <<>> /\ Len(last.before) < max_requests
  /\ ip_requests[GetClientIp(last.request)] = last.before

\* C19: ip_requests starts with no key; no step removes a key, whatever the
\* age of its entries; a key appears only in the evaluation of a POST of that
\* client, which leaves it there let through or not; and the list of a key
\* changes (entries dropped or added) only in the evaluation of a POST of
\* that same client.
C19_KeysOnlyGrow ==
  /\ ip_requests = <<>>
  /\ [][ /\ DOMAIN ip_requests \subseteq DOMAIN ip_requests'
         /\ \A k \in DOMAIN ip_requests' :
              (k \notin DOMAIN ip_requests \/ ip_requests'[k] # ip_requests[k]) =>
                /\ last'.gate = "rate" /\ last'.request.method = "POST"
                /\ GetClientIp(last'.request) = k
         /\ (last' # last /\ last'.gate = "rate" /\ last'.request.method = "POST") =>
              GetClientIp(last'.request) \in DOMAIN ip_requests'
       ]_vars

\* the entries of one client are all time_window old or older and still in
\* its list after a POST of another client was evaluated at the present time
C19_Witness ==
  /\ LastIsPost /\ last.now = clock
  /\ \E k \in (DOMAIN ip_requests) \ {LastKey} :
       /\ ip_requests[k] # <<>>
       /\ \A i \in DOMAIN ip_requests[k] : clock - ip_requests[k][i] >= time_window

\* the notifications of a type that refer to a message
NotificationsOf(m, notification_type) ==
  { i \in DOMAIN notifications :
      /\ notifications[i].message = m
      /\ notifications[i].notification_type = notification_type }

\* C20: every stored message has exactly one notification of type
\* 'new_message', addressed to the message's receiver, however many times and
\* with whatever content the message has been saved since it was created.
C20_OneNewMessageNotification ==
  \A m \in DOMAIN messages :
    /\ Cardinality(NotificationsOf(m, "new_message")) = 1
    /\ \A i \in NotificationsOf(m, "new_message") :
         notifications[i].user = messages[m].receiver

\* a message has had its content changed MaxEdits times and been marked read
C20_Witness ==
  \E m \in DOMAIN messages :
    /\ Cardinality({ i \in DOMAIN history : history[i].message = m }) = MaxEdits
    /\ messages[m].edited /\ messages[m].is_read
    /\ Cardinality(NotificationsOf(m, "new_message")) = 1
    /\ Cardinality(NotificationsOf(m, "message_edited")) = MaxEdits

\* the stored messages whose content a step changes
ContentChanged ==
  { m \in DOMAIN messages : messages'[m].content # messages[m].content }

\* the history rows of a message
HistoryOf(m) == { i \in DOMAIN history : history[i].message = m }

\* C21: a save that changes the content of a stored message adds exactly one
\* history row, for that message, holding the content stored before the save
\* and the message's sender as edited_by, and leaves the message with edited
\* = True and edited_at set; every other step (the creation of a message, a
\* save with the content it had) leaves the history as it was, so a message
\* has as many history rows as saves that changed its content.
C21_HistoryPerContentChange ==
  [][ /\ \A m \in ContentChanged :
           /\ history' = Append(history, [message |-> m,
                                          old_content |-> messages[m].content,
                                          edited_by |-> messages[m].sender])
           /\ messages'[m].edited = TRUE
           /\ messages'[m].edited_at # None
      /\ ContentChanged = {} => history' = history
    ]_vars

\* a message went from "hello" to "hi" and back: two history rows, in that
\* order, an edited message; another message was saved with its content (marked
\* read) and has no history
C21_Witness ==
  \E m \in DOMAIN messages, n \in DOMAIN messages :
    /\ m # n
    /\ history = << [message |-> m, old_content |-> "hello", edited_by |-> messages[m].sender],
                    [message |-> m, old_content |-> "hi", edited_by |-> messages[m].sender] >>
    /\ messages[m].content = "hello" /\ messages[m].edited
    /\ messages[m].edited_at = "now"
    /\ messages[n].is_read /\ ~messages[n].edited /\ HistoryOf(n) = {}

\* C22: a save that changes the content of a stored message creates exactly
\* one notification, of type 'message_edited', for the message's receiver and
\* about that message; a step that changes no content creates no
\* notification of that type.
C22_EditNotification ==
  [][ /\ \A m \in ContentChanged :
           notifications' =
             Append(notifications,
                    [user |-> messages[m].receiver, message |-> m,
                     notification_type |-> "message_edited", is_read |-> FALSE])
      /\ ContentChanged = {} =>
           \A m \in DOMAIN messages' :
             Cardinality(NotificationsOf(m, "message_edited")')
               = IF m \in DOMAIN messages
                 THEN Cardinality(NotificationsOf(m, "message_edited"))
                 ELSE 0
    ]_vars

\* a message was created, marked read without a change of content, then
\* edited once: one 'message_edited' notification, the last one, for its
\* receiver
C22_Witness ==
  \E m \in DOMAIN messages :
    /\ messages[m].is_read /\ messages[m].edited
    /\ Cardinality(HistoryOf(m)) = 1
    /\ Cardinality(NotificationsOf(m, "message_edited")) = 1
    /\ notifications[Len(notifications)] =
         [user |-> messages[m].receiver, message |-> m,
          notification_type |-> "message_edited", is_read |-> FALSE]

\* C23: when a user is deleted, no stored message has that user as sender and
\* no stored notification is addressed to that user, whatever was stored
\* before.
C23_UserDeletionCleansUp ==
  [][ \A u \in users \ users' :
        /\ \A m \in DOMAIN messages' : messages'[m].sender # u
        /\ \A i \in DOMAIN notifications' : notifications'[i].user # u
    ]_vars

\* C26: every stored notification refers to a stored message and is addressed
\* to a stored user, after any creations, saves and deletions; the
\* 'message_deleted' notification of a deleted message is no exception.
C26_NotificationsReferToStoredRows ==
  \A i \in DOMAIN notifications :
    /\ notifications[i].message \in DOMAIN messages
    /\ notifications[i].user \in users

\* C24: whatever messages are stored, a query through the unread manager
\* returns the stored messages that have is_read = False, all of them and no
\* other, and unread_for_user(u) returns those of them whose receiver is u,
\* all of them and no other.
C24_UnreadManager ==
  [][ fetched' # fetched =>
        /\ fetched'.all \subseteq DOMAIN messages
        /\ fetched'.for_user \subseteq DOMAIN messages
        /\ \A m \in DOMAIN messages :
             /\ m \in fetched'.all <=> ~messages[m].is_read
             /\ m \in fetched'.for_user <=>
                  (~messages[m].is_read /\ messages[m].receiver = fetched'.user)
    ]_vars

\* the user asked for has received a message that is read and one that is
\* not: the query returned the second only
C24_Witness ==
  \E m \in DOMAIN messages, n \in DOMAIN messages :
    /\ messages[m].receiver = fetched.user /\ ~messages[m].is_read
    /\ messages[n].receiver = fetched.user /\ messages[n].is_read
    /\ fetched.for_user = {m} /\ fetched.all = {m}

\* the positions of the calls of func among the events
RetryCalls == { i \in DOMAIN retry.events : retry.events[i].kind = "call" }

\* C25: func is called at most retries times; a call that returns is the
\* last event and its value is the wrapper's result; when retries >= 1 calls
\* were made and all raised, the wrapper raises the exception of the last
\* one; a sleep of delay seconds stands between every two consecutive calls
\* and nowhere else, so none follows the last call; with retries = 0 func is
\* not called and the wrapper ends by raising, with no result.
C25_RetryOnFailure ==
  LET e == retry.events
  IN  retry.pc # "idle" =>
        /\ Cardinality(RetryCalls) <= retry.retries
        /\ \A i \in RetryCalls :
             /\ e[i].how = "return" =>
                  /\ i = Len(e) /\ retry.pc = "done"
                  /\ retry.result = <<"return", e[i].value>>
             /\ i > 1 => e[i - 1].kind = "sleep" /\ e[i - 1].secs = retry.delay
        /\ \A i \in DOMAIN e \ RetryCalls :
             /\ i > 1 /\ e[i - 1].kind = "call"
             /\ i < Len(e) => e[i + 1].kind = "call"
             /\ retry.pc = "done" => i < Len(e)
        /\ (retry.pc = "done" /\ retry.result[1] = "return") =>
             e # <<>> /\ e[Len(e)].how = "return"
        /\ (retry.pc = "done" /\ retry.retries >= 1
              /\ Cardinality(RetryCalls) = retry.retries
              /\ \A i \in RetryCalls : e[i].how = "raise") =>
             /\ e[Len(e)].kind = "call"
             /\ retry.result = <<"raise", e[Len(e)].value>>
        /\ (retry.pc = "done" /\ retry.retries = 0) =>
             e = <<>> /\ retry.result[1] = "raise"

\* three attempts failed, with different exceptions, two sleeps between
\* them: the wrapper raised the third exception
C25_Witness ==
  /\ retry.pc = "done" /\ retry.retries = 3 /\ Len(retry.events) = 5
  /\ retry.events[1].value = "OperationalError"
  /\ retry.events[2].kind = "sleep" /\ retry.events[4].kind = "sleep"
  /\ retry.events[5].value = "ValueError" /\ retry.events[5].how = "raise"
  /\ retry.result = <<"raise", "ValueError">>

\* the second attempt returned: no third call
C25_WitnessSecond ==
  /\ retry.pc = "done" /\ retry.retries = 3 /\ Len(retry.events) = 3
  /\ retry.result = <<"return", "rows">>

\* retries = 0: the wrapper ended without a call
C25_WitnessZero ==
  /\ retry.pc = "done" /\ retry.retries = 0 /\ retry.events = <<>>
  /\ retry.result = <<"raise", "TypeError">>

\* how many times u occurs in a list
Occurrences(list, u) == Cardinality({ i \in DOMAIN list : list[i] = u })

\* C27: when the POSTs of one client are evaluated concurrently and all of
\* them have completed, the client's list holds the time of every POST that
\* was let through, as many times as POSTs were let through at that time: no
\* append is lost to another request's replacement of the list.
C27_NoLostRecord ==
  (\A t \in Threads : pc[t] \in {"idle", "done"}) =>
    \A k \in Keys : \A u \in Instants :
      Occurrences(Lookup(ip_requests, k), u) >= Occurrences(admitted[k], u)

\* a path under /api/admin/, /api/moderate/, /api/users/delete/ or
\* /api/conversations/delete/
UnderProtectedPrefix(path) ==
  \E p \in { <<"", "api", "admin">>, <<"", "api", "moderate">>,
             <<"", "api", "users", "delete">>,
             <<"", "api", "conversations", "delete">> } :
    Len(path) > Len(p) /\ SubSeq(path, 1, Len(p)) = p

\* C28: a request under a protected prefix is handed on exactly when its
\* user is authenticated and is staff, superuser, admin or moderator; from an
\* unauthenticated user it gets 403 "Authentication required", from an
\* authenticated user without those privileges 403 "Admin or moderator access
\* required"; a request to any other path is handed on whoever sends it.
C28_RolePermission ==
  last.gate = "role" =>
    LET request == last.request
        user == request.user
        privileged == user.is_staff \/ user.is_superuser
                        \/ user.role = "admin" \/ user.role = "moderator"
    IN  IF ~UnderProtectedPrefix(request.path)
        THEN last.forwarded = <<request>> /\ last.response \in DownstreamResponses
        ELSE IF ~user.is_authenticated
        THEN /\ last.forwarded = <<>>
             /\ last.response = [status |-> 403, body |-> <<"Authentication required">>]
        ELSE IF ~privileged
        THEN /\ last.forwarded = <<>>
             /\ last.response =
                  [status |-> 403, body |-> <<"Admin or moderator access required">>]
        ELSE last.forwarded = <<request>> /\ last.response \in DownstreamResponses

\* an authenticated host, neither staff nor superuser, is turned away from
\* /api/users/delete/7
C28_Witness ==
  /\ last.gate = "role"
  /\ last.request.path = <<"", "api", "users", "delete", "7">>
  /\ last.request.user = [is_authenticated |-> TRUE, is_staff |-> FALSE,
                          is_superuser |-> FALSE, role |-> "host"]
  /\ last.forwarded = <<>>
  /\ last.response.body = <<"Admin or moderator access required">>

\* a moderator reaches the handler under /api/moderate/, and anybody does at
\* /api/admin, which has no slash at its end
C28_WitnessForwarded ==
  /\ last.gate = "role" /\ last.forwarded # <<>>
  /\ \/ /\ last.request.path = <<"", "api", "moderate", "queue">>
        /\ last.request.user.role = "moderator" /\ ~last.request.user.is_staff
     \/ /\ last.request.path = <<"", "api", "admin">>
        /\ ~last.request.user.is_authenticated

\* C29: wait_n(n, max_delay) returns a list of exactly n delays, the delays
\* its n coroutines drew, in ascending order.
C29_DelaysAscending ==
  waits.pc = "returned" =>
    /\ Len(waits.results) = waits.n
    /\ \A i \in 1..(Len(waits.results) - 1) : waits.results[i] <= waits.results[i + 1]

RECURSIVE Flatten(_)
\* the pages of a list one after another
Flatten(pages) ==
  IF pages = <<>> THEN <<>> ELSE Head(pages) \o Flatten(Tail(pages))

C30_WitnessZero ==
  /\ pager.pc = "finished" /\ pager.page_size = 0 /\ pager.table # <<>>
  /\ pager.fetched = <<0>> /\ pager.yielded = <<>>

====
